---- MODULE Spec2Model ----
(***************************************************************************)
(* Model of the micro-frontend dashboard: the widget loader                *)
(* (src/src/utils/widgetLoader.js), the useWidgets hook                    *)
(* (src/unnamed/part_003) and the ConfigManager handlers                   *)
(* (src/unnamed/part_002).                                                 *)
(*                                                                         *)
(* JavaScript values are encoded as follows.                               *)
(*   - an object is a record holding exactly the keys that are present     *)
(*     (an absent key reads as undefined);                                 *)
(*   - null is [null |-> TRUE]; an array is [arr |-> <<...>>]; a number    *)
(*     standing where an array or object is expected is [num |-> n];       *)
(*   - widget ids and names are sequences of one-character strings, other  *)
(*     strings are TLA+ strings, numbers are integers;                     *)
(*   - a text is [json |-> v] when JSON.parse yields v and [raw |-> s]     *)
(*     when JSON.parse throws ([raw |-> ""] is the empty string);          *)
(*   - a call's outcome is [ok |-> TRUE, value |-> v] or                   *)
(*     [ok |-> FALSE, error |-> e].                                        *)
(***************************************************************************)
EXTENDS Integers, Sequences, FiniteSets, TLC

\* ------------------------------------------------------------------ bounds
\* Operations (initWidgets, updateConfig, resetConfig) in flight at once.
MaxOps == 2
\* Operations started in one behaviour.
MaxStarts == 3
\* Files FileReader is reading at once.
MaxReads == 1
\* Calls of reloadWidgets and of clearWidgetCache in one behaviour.
MaxReloads == 1
MaxClears == 1

\* ------------------------------------------------------------- JS values
Null == [null |-> TRUE]
Arr(s) == [arr |-> s]
IsArray(v) == "arr" \in DOMAIN v
IsNull(v) == "null" \in DOMAIN v
\* !v for a value that is null, a number, an array or an object
Falsy(v) == IsNull(v) \/ ("num" \in DOMAIN v /\ v.num = 0)
Has(o, f) == f \in DOMAIN o
Return(v) == [ok |-> TRUE, value |-> v]
Throw(e) == [ok |-> FALSE, error |-> e]

\* ------------------------------------------------- widgetLoader.js, pure
\* String.prototype.toLowerCase on the letters the sample names use.
ToLowerCase(c) ==
  CASE c = "W" -> "w" [] c = "A" -> "a" [] c = "B" -> "b" [] c = "C" -> "c"
    [] OTHER -> c

\* The characters [a-z0-9-] that the second replace() keeps.
KebabChars ==
  {"a","b","c","d","e","f","g","h","i","j","k","l","m","n","o","p","q","r",
   "s","t","u","v","w","x","y","z","0","1","2","3","4","5","6","7","8","9","-"}

\* name.toLowerCase().replace(/\s+/g, '-').replace(/[^a-z0-9-]/g, '')
RECURSIVE KebabFrom(_, _)
KebabFrom(s, inSpace) ==
  IF s = <<>> THEN <<>>
  ELSE LET c == ToLowerCase(Head(s)) IN
       IF c = " "
       THEN (IF inSpace THEN <<>> ELSE <<"-">>) \o KebabFrom(Tail(s), TRUE)
       ELSE (IF c \in KebabChars THEN <<c>> ELSE <<>>) \o KebabFrom(Tail(s), FALSE)

Kebab(name) == KebabFrom(name, FALSE)

\* s.substring(0, n) of a sequence of characters
Substring(s, n) == SubSeq(s, 1, IF Len(s) < n THEN Len(s) ELSE n)

\* generateWidgetId: r is the digit string of Math.random().toString(36)
\* after the leading "0."
generateWidgetId(r) == <<"w","i","d","g","e","t","-">> \o Substring(r, 7)

\* A normalizeWidgetConfig that copies the fields of the schema only
normalizeWidgetConfigSchemaOnly(widget, r) ==
  LET id == IF Has(widget, "id") /\ widget.id # <<>> THEN widget.id
            ELSE IF Has(widget, "name") /\ widget.name # <<>>
                 THEN Kebab(widget.name) \o <<"-">> \o Substring(r, 4)
                 ELSE generateWidgetId(r)
  IN [f \in (DOMAIN widget \cap {"name", "url", "scope"})
              \cup {"id", "module", "props", "cols", "rows"} |->
        CASE f = "id" -> id
          [] f = "module" ->
               IF Has(widget, "module") /\ widget.module # ""
               THEN widget.module ELSE "./Widget"
          [] f = "props" ->
               IF Has(widget, "props") /\ ~IsNull(widget.props)
               THEN widget.props ELSE <<>>
          [] f = "cols" ->
               IF Has(widget, "cols") /\ widget.cols # 0 THEN widget.cols ELSE 1
          [] f = "rows" ->
               IF Has(widget, "rows") /\ widget.rows # 0 THEN widget.rows ELSE 1
          [] OTHER -> widget[f]]

\* normalizeWidgetConfig(widget), for a widget that is an object; r is the
\* digit string Math.random() would produce in this call.
normalizeWidgetConfig(widget, r) ==
  LET id == IF Has(widget, "id") /\ widget.id # <<>> THEN widget.id
            ELSE IF Has(widget, "name") /\ widget.name # <<>>
                 THEN Kebab(widget.name) \o <<"-">> \o Substring(r, 4)
                 ELSE generateWidgetId(r)
  IN [f \in DOMAIN widget \cup {"id", "module", "props", "cols", "rows"} |->
        CASE f = "id" -> id
          [] f = "module" ->
               IF Has(widget, "module") /\ widget.module # ""
               THEN widget.module ELSE "./Widget"
          [] f = "props" ->
               IF Has(widget, "props") /\ ~IsNull(widget.props)
               THEN widget.props ELSE <<>>
          [] f = "cols" ->
               IF Has(widget, "cols") /\ widget.cols # 0 THEN widget.cols ELSE 1
          [] f = "rows" ->
               IF Has(widget, "rows") /\ widget.rows # 0 THEN widget.rows ELSE 1
          [] OTHER -> widget[f]]

\* (config.widgets || []).map(normalizeWidgetConfig): a TypeError when
\* config is null, when config.widgets is truthy and no array, or when an
\* element is null.
\* rs[i] is the random digit string of the i-th call.
NormalizeWidgets(config, rs) ==
  IF IsNull(config) THEN Throw("TypeError")
  ELSE IF ~Has(config, "widgets") \/ Falsy(config.widgets) THEN Return(Arr(<<>>))
  ELSE IF ~IsArray(config.widgets) THEN Throw("TypeError")
  ELSE LET ws == config.widgets.arr IN
       IF \E i \in 1..Len(ws) : IsNull(ws[i]) THEN Throw("TypeError")
       ELSE Return(Arr([i \in 1..Len(ws) |-> normalizeWidgetConfig(ws[i], rs[i])]))

\* config.gridColumns || 3
GridColumnsOr3(config) ==
  IF Has(config, "gridColumns") /\ config.gridColumns # 0
  THEN config.gridColumns ELSE 3

\* JSON.parse(text)
JSONparse(text) ==
  IF Has(text, "json") THEN Return(text.json)
  ELSE Throw("SyntaxError")

\* JSON.stringify({ gridColumns, widgets }, null, 2)
JSONstringify(gridCols, ws) == [json |-> [gridColumns |-> gridCols, widgets |-> ws]]

\* The random digit strings drawn for the widgets of config.
NumWidgets(config) ==
  IF ~IsNull(config) /\ Has(config, "widgets") /\ IsArray(config.widgets)
  THEN Len(config.widgets.arr) ELSE 0

EmptyConfig == [gridColumns |-> 3, widgets |-> Arr(<<>>)]

\* localStorage.getItem(STORAGE_KEY) when there is no entry
NoItem == [none |-> TRUE]

\* A loadWidgetConfig that never looks at localStorage
StoredConfigIgnored(stored) == Null

\* loadWidgetConfig, lines 150-162: config after the localStorage stage
StoredConfig(stored) ==
  IF Has(stored, "none") \/ stored = [raw |-> ""] THEN Null
  ELSE LET p == JSONparse(stored) IN IF p.ok THEN p.value ELSE Null

\* loadWidgetConfig, lines 179-183
ConfigResult(config, rs) ==
  LET n == NormalizeWidgets(config, rs) IN
  IF n.ok THEN Return([gridColumns |-> GridColumnsOr3(config), widgets |-> n.value])
  ELSE n

\* loadWidgetConfig, lines 165-177 and on: fetched is the outcome of
\* fetch + response.json()
ConfigAfterFetch(fetched, rs) ==
  IF ~fetched.ok THEN Return(EmptyConfig) ELSE ConfigResult(fetched.value, rs)

\* importWidgetConfig without the check of lines 229-231
importWidgetConfigUnchecked(jsonString) ==
  LET p == JSONparse(jsonString) IN
  IF ~p.ok THEN Throw("Import failed: SyntaxError")
  ELSE IF IsNull(p.value) THEN Throw("Import failed: TypeError")
  ELSE Return([gridColumns |-> GridColumnsOr3(p.value),
               widgets |-> IF Has(p.value, "widgets") THEN p.value.widgets
                           ELSE [undefined |-> TRUE]])

\* importWidgetConfig(jsonString)
importWidgetConfig(jsonString) ==
  LET p == JSONparse(jsonString) IN
  IF ~p.ok THEN Throw("Import failed: SyntaxError")
  ELSE IF IsNull(p.value) THEN Throw("Import failed: TypeError")
  ELSE IF ~Has(p.value, "widgets") \/ Falsy(p.value.widgets) \/ ~IsArray(p.value.widgets)
       THEN Throw("Import failed: Invalid config format")
  ELSE Return([gridColumns |-> GridColumnsOr3(p.value), widgets |-> p.value.widgets])

\* An importWidgetConfig that writes the text it accepted to localStorage
importStoragePersisting(entry, jsonString) ==
  IF Has(jsonString, "json") /\ ~IsNull(jsonString.json) THEN jsonString ELSE entry

\* The localStorage entry after importWidgetConfig(jsonString), entry being
\* the one before: lines 226-240 call nothing of localStorage.
importStorage(entry, jsonString) == entry

\* A resetWidgetConfig without the catch block of lines 261-264
ResetAfterFetchRaising(fetched) ==
  IF ~fetched.ok THEN Throw(fetched.error)
  ELSE IF IsNull(fetched.value) THEN Throw("TypeError")
  ELSE LET config == fetched.value IN
       Return([gridColumns |-> GridColumnsOr3(config),
               widgets |-> IF Has(config, "widgets") /\ ~Falsy(config.widgets)
                           THEN config.widgets ELSE Arr(<<>>)])

\* resetWidgetConfig after localStorage.removeItem, lines 251-264
ResetAfterFetch(fetched) ==
  IF ~fetched.ok \/ IsNull(fetched.value) THEN Return(EmptyConfig)
  ELSE LET config == fetched.value IN
       Return([gridColumns |-> GridColumnsOr3(config),
               widgets |-> IF Has(config, "widgets") /\ ~Falsy(config.widgets)
                           THEN config.widgets ELSE Arr(<<>>)])

\* A resetWidgetConfig that leaves the entry in place
removeItemSkipped(entry) == entry

\* localStorage.removeItem(STORAGE_KEY) in resetWidgetConfig: the entry after it
removeItem(entry) == NoItem

\* The saveWidgetConfig(widgets) of the loader's first version (lines
\* 400-407), which writes the widgets only
saveWidgetConfigWidgetsOnly(ws, gridCols, quotaExceeded) ==
  IF quotaExceeded THEN Throw("QuotaExceededError")
  ELSE Return([json |-> [widgets |-> ws]])

\* saveWidgetConfig(widgets, gridColumns): the text written, or the error
\* localStorage.setItem raised
saveWidgetConfig(ws, gridCols, quotaExceeded) ==
  IF quotaExceeded THEN Throw("QuotaExceededError")
  ELSE Return(JSONstringify(gridCols, ws))

\* ---------------------------------------------------------- sample inputs
\* The longest widget list among the sample inputs.
MaxWidgets == 2
\* { name: "We", url: "u1" }: no id, nothing else filled in
WNamed == [name |-> <<"W", "e">>, url |-> "u1"]
\* a fully specified descriptor with id "a" served from u1
WA1 == [id |-> <<"a">>, name |-> <<"A">>, url |-> "u1", module |-> "./Widget",
        props |-> <<>>, cols |-> 1, rows |-> 1]
\* { id: "a", name: "A", url: "u2", cols: 0 }: same id, another url
WA2 == [id |-> <<"a">>, name |-> <<"A">>, url |-> "u2", cols |-> 0]
\* a fully specified descriptor with id "b" served from u2
WB == [id |-> <<"b">>, name |-> <<"B">>, url |-> "u2", module |-> "./Widget",
       props |-> <<>>, cols |-> 2, rows |-> 1]
\* { id: "c", name: "C", url: "u1", props: null, cols: -2, rows: 0,
\*   scope: "c", extra: "x" }
WOdd == [id |-> <<"c">>, name |-> <<"C">>, url |-> "u1", props |-> Null,
         cols |-> -2, rows |-> 0, scope |-> "c", extra |-> "x"]

TGarbage == [raw |-> "{not json"]
TNull == [json |-> Null]
TNoWidgets == [json |-> [notWidgets |-> Arr(<<>>)]]
TBadWidgets == [json |-> [widgets |-> [num |-> 5]]]
TNullElem == [json |-> [widgets |-> Arr(<<Null, WB>>)]]
TRaw == [json |-> [widgets |-> Arr(<<WNamed>>)]]
\* the text saveWidgetConfig([WA1, WB], 2) writes
TNorm == [json |-> [gridColumns |-> 2, widgets |-> Arr(<<WA1, WB>>)]]
TOdd == [json |-> [widgets |-> Arr(<<WOdd>>)]]
TDup == [json |-> [gridColumns |-> 0, widgets |-> Arr(<<WA1, WA2>>)]]

FetchFailed == Throw("fetch failed")

\* A session fixes what the page may find in localStorage when it is opened
\* (initial), the outcomes of fetch('/dashboard/widgets.json') followed by
\* response.json() (fetch), what the user may type into the editor (texts)
\* and what a file picked for import may hold (files), and whether the
\* build has defined the global __federation_shared__.
FirstVisit ==
  [federation_shared |-> FALSE,
   initial |-> {NoItem},
   fetch |-> {FetchFailed, Return(TRaw.json), Return(TNorm.json)},
   texts |-> {TNoWidgets, TRaw, TNullElem},
   files |-> {TNoWidgets}]
Returning ==
  [federation_shared |-> TRUE,
   initial |-> {TNorm},
   fetch |-> {FetchFailed, Return(TRaw.json), Return(TNorm.json)},
   texts |-> {TGarbage, TNorm, TDup},
   files |-> {TNorm}]
Damaged ==
  [federation_shared |-> FALSE,
   initial |-> {TGarbage, TNull, TBadWidgets, TOdd},
   fetch |-> {FetchFailed, Return(TNull.json), Return(TBadWidgets.json),
              Return(TNorm.json)},
   texts |-> {TNull, TBadWidgets},
   files |-> {TNoWidgets}]
Sessions == {FirstVisit, Returning, Damaged}

\* Digit strings of Math.random().toString(36) after "0.": a usual one and
\* the one of Math.random() = 0.5.
Randoms == {<<"x", "1", "y", "2", "p", "7", "m", "3">>, <<"i">>}

\* ------------------------------------------------------------------ state
VARIABLES
  storage,           \* localStorage[STORAGE_KEY]: NoItem or a text
  loadedWidgets,     \* the loader's cache: id -> component
  widgets,           \* useWidgets state
  gridColumns,
  widgetComponents,  \* id -> component or Null
  loading,
  error,             \* "null" or the error's name
  refreshTrigger,
  mounted,           \* the effect has run for the mount
  ops,               \* the hook's async operations in flight, by slot
  started,           \* operations started so far
  reading,           \* texts FileReader.readAsText is still reading
  cmError,           \* ConfigManager's error message, "null" when none
  ev,                \* the calls made by the last step, in order
  okResults,         \* id -> components that completed loadWidget calls returned
                     \*       since the cache was last cleared
  lastStored,        \* id -> component the latest loadedWidgets.set stored
  entryFrom,         \* how the localStorage entry came to be what it is:
                     \* by "initial" (as found when the page was opened),
                     \* "saved" (written by saveWidgetConfig with these widgets
                     \* and gridColumns), "removed" (by a resetWidgetConfig
                     \* still in flight) or "reset" (removed by a
                     \* resetWidgetConfig that has returned, nothing saved
                     \* since it was called)
  clears,            \* calls of clearWidgetCache so far
  sharedScopes,      \* registry objects getSharedScope has constructed so far
  focusedWidgetId,   \* null or [id |-> the id of the focused widget]
  boundaries,        \* the state of the WidgetErrorBoundary of each position
                     \* of widgets; the one of an unmounted cell is Fresh
  gridSteps,         \* grid gestures and widget failures so far
  env                \* the session

vars == <<storage, loadedWidgets, widgets, gridColumns, widgetComponents, loading,
          error, refreshTrigger, mounted, ops, started, reading, cmError, ev,
          okResults, lastStored, entryFrom, clears, sharedScopes, focusedWidgetId,
          boundaries, gridSteps, env>>

Slots == 1..MaxOps
Idle == [kind |-> "idle"]
UndefinedId == <<"undefined">>

IdOf(w) == IF Has(w, "id") THEN w.id ELSE UndefinedId
UrlOf(w) == IF Has(w, "url") THEN w.url ELSE "undefined"
ModuleOf(w) == IF Has(w, "module") THEN w.module ELSE "undefined"
\* The component the container at `${url}/assets/remoteEntry.js` exposes
\* as module.
ComponentOf(w) == [url |-> UrlOf(w), module |-> ModuleOf(w)]

Put(m, k, v) == [x \in DOMAIN m \cup {k} |-> IF x = k THEN v ELSE m[x]]
AddTo(m, k, v) == Put(m, k, (IF k \in DOMAIN m THEN m[k] ELSE {}) \cup {v})

Settled(l) == l.pc \in {"hit", "ok", "failed", "threw"}

\* loadWidget without the cache check of lines 99-101
StartLoadNoCache(cache, w) ==
  IF IsNull(w) THEN [w |-> w, pc |-> "threw", res |-> Null]
  ELSE [w |-> w, pc |-> "import", res |-> Null]

\* A loadWidget whose cache entry serves only the url and module it was
\* loaded from
StartLoadSameSource(cache, w) ==
  IF IsNull(w) THEN [w |-> w, pc |-> "threw", res |-> Null]
  ELSE IF IdOf(w) \in DOMAIN cache /\ cache[IdOf(w)] = ComponentOf(w)
       THEN [w |-> w, pc |-> "hit", res |-> cache[IdOf(w)]]
  ELSE [w |-> w, pc |-> "import", res |-> Null]

\* loadWidget(widgetConfig) up to its first await, lines 95-109
StartLoad(cache, w) ==
  IF IsNull(w) THEN [w |-> w, pc |-> "threw", res |-> Null]
  ELSE IF IdOf(w) \in DOMAIN cache THEN [w |-> w, pc |-> "hit", res |-> cache[IdOf(w)]]
  ELSE [w |-> w, pc |-> "import", res |-> Null]

\* The loadWidget calls loadWidgets(ws) makes, as events.
LoadEvents(ls) ==
  [i \in 1..Len(ls) |->
     [call |-> "loadWidget", w |-> ls[i].w, hit |-> (ls[i].pc = "hit"),
      threw |-> (ls[i].pc = "threw"), ret |-> ls[i].res,
      prior |-> IF ~IsNull(ls[i].w) /\ IdOf(ls[i].w) \in DOMAIN okResults
                THEN okResults[IdOf(ls[i].w)] ELSE {}]]

\* loadedComponents after the cache hits among ls have been written
HitComps(ls) ==
  LET hits == {i \in 1..Len(ls) : ls[i].pc = "hit"} IN
  [id \in {IdOf(ls[i].w) : i \in hits} |-> loadedWidgets[id]]

RECURSIVE AddHits(_, _, _)
AddHits(m, ls, i) ==
  IF i > Len(ls) THEN m
  ELSE AddHits(IF ls[i].pc = "hit" THEN AddTo(m, IdOf(ls[i].w), ls[i].res) ELSE m,
               ls, i + 1)

FreeSlot == CHOOSE s \in Slots : ops[s].kind = "idle" /\ \A t \in Slots : t < s => ops[t].kind # "idle"
HasFreeSlot == \E s \in Slots : ops[s].kind = "idle"
CanStart == started < MaxStarts /\ HasFreeSlot
\* App renders ConfigManager only when it shows neither the spinner nor the
\* error page (part_004 lines 9-25).
ConfigManagerShown == ~loading /\ error = "null"

\* The part of initWidgets / updateConfig / resetConfig from setWidgets on
\* (part_003 lines 58-69, 88-99, 112-123), up to the await of loadWidgets or,
\* when nothing is left to wait for, to the end. outcome is what the
\* configuration stage returned or threw.
HookContinue(s, kind, outcome, errBase, loadingBase, opsBase, trace) ==
  IF ~outcome.ok
  THEN /\ error' = outcome.error
       /\ loading' = FALSE
       /\ ops' = [opsBase EXCEPT ![s] = Idle]
       /\ ev' = trace
       /\ UNCHANGED <<widgets, gridColumns, widgetComponents, okResults>>
  ELSE
    /\ widgets' = outcome.value.widgets
    /\ gridColumns' = outcome.value.gridColumns
    /\ IF ~IsArray(outcome.value.widgets)
       THEN \* widgetConfigs.map is not a function
            /\ error' = "TypeError"
            /\ loading' = FALSE
            /\ ops' = [opsBase EXCEPT ![s] = Idle]
            /\ ev' = trace \o <<[call |-> "loadWidgets", list |-> FALSE, loads |-> <<>>,
                                 rejected |-> TRUE, map |-> <<>>]>>
            /\ UNCHANGED <<widgetComponents, okResults>>
       ELSE
         LET ws == outcome.value.widgets.arr
             ls == [i \in 1..Len(ws) |-> StartLoad(loadedWidgets, ws[i])]
             comps == HitComps(ls)
             rejected == \E i \in 1..Len(ls) : ls[i].pc = "threw"
             pending == \E i \in 1..Len(ls) : ~Settled(ls[i])
             op == [kind |-> kind, pc |-> IF rejected THEN "orphan" ELSE "loads",
                    loads |-> ls, comps |-> comps]
             done == [call |-> "loadWidgets", list |-> TRUE, loads |-> ls,
                      rejected |-> rejected,
                      map |-> comps]
         IN /\ okResults' = AddHits(okResults, ls, 1)
            /\ ops' = [opsBase EXCEPT ![s] = IF pending THEN op ELSE Idle]
            /\ IF rejected
               THEN /\ error' = "TypeError"
                    /\ loading' = FALSE
                    /\ ev' = trace \o LoadEvents(ls) \o <<done>>
                    /\ UNCHANGED widgetComponents
               ELSE IF pending
               THEN /\ error' = errBase
                    /\ loading' = loadingBase
                    /\ ev' = trace \o LoadEvents(ls)
                    /\ UNCHANGED widgetComponents
               ELSE /\ error' = errBase
                    /\ loading' = FALSE
                    /\ widgetComponents' = comps
                    /\ ev' = trace \o LoadEvents(ls) \o <<done>>

\* ------------------------------------------ WidgetGrid, WidgetErrorBoundary
\* Grid gestures (focus, exit, drag) and widget failures in one behaviour.
MaxGridSteps == 2

Range(f) == {f[x] : x \in DOMAIN f}
Min(S) == CHOOSE x \in S : \A y \in S : x <= y

\* App renders WidgetGrid when it shows neither the spinner nor the error
\* page (part_004 lines 9-25, 43-45); l and e are the hook's loading and
\* error.
WidgetGridShown(l, e) == ~l /\ e = "null"

\* const isFocusMode = focusedWidgetId !== null (WidgetContainer.jsx line 194)
isFocusMode(focused) == ~IsNull(focused)

\* The positions from j on of the widgets that pass
\* widgets.filter(w => w.id === focusedWidgetId)
RECURSIVE FilterFocused(_, _, _)
FilterFocused(ws, focused, j) ==
  IF j > Len(ws) THEN <<>>
  ELSE (IF IdOf(ws[j]) = focused.id THEN <<j>> ELSE <<>>)
       \o FilterFocused(ws, focused, j + 1)

\* A displayWidgets that filters whether or not a widget is focused
displayWidgetsFiltered(ws, focused) ==
  IF isFocusMode(focused) THEN FilterFocused(ws, focused, 1) ELSE <<>>

\* displayWidgets (lines 238-240), as the positions in widgets of the
\* widgets displayed, in order.
displayWidgets(ws, focused) ==
  IF isFocusMode(focused) THEN FilterFocused(ws, focused, 1)
  ELSE [j \in 1..Len(ws) |-> j]

\* The panel WidgetGrid renders in place of a widget (lines 273-275)
FailurePanel == [panel |-> "Widget failed to load"]

\* widget.props || {}
PropsOf(widget) ==
  IF Has(widget, "props") /\ ~IsNull(widget.props) THEN widget.props ELSE <<>>

\* A cell that takes only a null entry for a failed load
CellChildrenNullOnly(widget, comps) ==
  IF IdOf(widget) \in DOMAIN comps /\ IsNull(comps[IdOf(widget)]) THEN FailurePanel
  ELSE [component |-> IF IdOf(widget) \in DOMAIN comps THEN comps[IdOf(widget)]
                      ELSE [undefined |-> TRUE],
        props |-> PropsOf(widget)]

\* The children WidgetGrid hands to the container of widget (lines 263-289):
\* the failure panel when widgetComponents[widget.id] is undefined or null,
\* else the component with the widget's props.
CellChildren(widget, comps) ==
  IF IdOf(widget) \notin DOMAIN comps \/ IsNull(comps[IdOf(widget)]) THEN FailurePanel
  ELSE [component |-> comps[IdOf(widget)], props |-> PropsOf(widget)]

\* WidgetErrorBoundary: this.state of the constructor (lines 79-82)
Fresh == [hasError |-> FALSE, error |-> Null]

\* A boundary whose getDerivedStateFromError records nothing
getDerivedStateFromErrorIgnored(err) == Fresh

\* static getDerivedStateFromError(error) (lines 84-86)
getDerivedStateFromError(err) == [hasError |-> TRUE, error |-> err]

\* WidgetErrorBoundary.render (lines 92-107)
BoundaryRender(state, widgetName, children) ==
  IF state.hasError
  THEN [panel |-> "Widget Error", widgetName |-> widgetName,
        message |-> state.error.message]
  ELSE children

NameOf(w) == IF Has(w, "name") THEN w.name ELSE UndefinedId

\* What WidgetGrid renders (lines 228-295): no cell when the list is empty,
\* else one cell per displayed widget, keyed by its id.
WidgetGrid(ws, comps, focused, bs) ==
  IF Len(ws) = 0 THEN <<>>
  ELSE LET shown == displayWidgets(ws, focused) IN
       [k \in 1..Len(shown) |->
          [key |-> IdOf(ws[shown[k]]), position |-> shown[k],
           children |-> CellChildren(ws[shown[k]], comps),
           shows |-> BoundaryRender(bs[shown[k]], NameOf(ws[shown[k]]),
                                    CellChildren(ws[shown[k]], comps))]]

\* The positions of ws whose cell is mounted, shown telling whether App
\* renders WidgetGrid.
MountedCells(ws, shown, focused) ==
  IF shown /\ IsArray(ws) /\ (IsArray(ws) => Len(ws.arr) > 0)
  THEN Range(displayWidgets(ws.arr, focused)) ELSE {}

\* The boundaries after a render: React keeps the instance, and with it the
\* state, of a cell that was mounted (m) and still is (m2) under the same
\* key, and mounts a new instance otherwise.
Reconcile(bs, ws, m, ws2, m2) ==
  IF ~IsArray(ws2) THEN <<>>
  ELSE [j \in 1..Len(ws2.arr) |->
          IF j \notin m2 THEN Fresh
          ELSE IF ws2 = ws THEN (IF j \in m THEN bs[j] ELSE Fresh)
          ELSE LET old == {i \in m : IdOf(ws.arr[i]) = IdOf(ws2.arr[j])} IN
               IF old = {} THEN Fresh ELSE bs[Min(old)]]

\* React renders App after a step. flushed tells whether the spinner of a
\* setLoading(true) made in the step was rendered before the step's later
\* updates, which unmounts WidgetGrid and every boundary with it.
Rerender(flushed) ==
  boundaries' =
    Reconcile(boundaries, widgets,
              IF started' # started /\ flushed THEN {}
              ELSE MountedCells(widgets, WidgetGridShown(loading, error),
                                focusedWidgetId),
              widgets',
              MountedCells(widgets', WidgetGridShown(loading', error'),
                           focusedWidgetId'))

Init ==
  /\ env \in Sessions
  /\ storage \in env.initial
  /\ loadedWidgets = <<>>
  /\ widgets = Arr(<<>>)
  /\ gridColumns = 3
  /\ widgetComponents = <<>>
  /\ loading = TRUE
  /\ error = "null"
  /\ refreshTrigger = 0
  /\ mounted = FALSE
  /\ ops = [s \in Slots |-> Idle]
  /\ started = 1
  /\ reading = {}
  /\ cmError = "null"
  /\ ev = <<>>
  /\ okResults = <<>>
  /\ lastStored = <<>>
  /\ entryFrom = [by |-> "initial"]
  /\ clears = 0
  /\ sharedScopes = 0
  /\ focusedWidgetId = Null
  /\ boundaries = <<>>
  /\ gridSteps = 0

\* ------------------------------------------------------------ useWidgets
\* initWidgets (part_003 lines 51-70) up to its first await that has to
\* wait: the fetch of loadWidgetConfig or the widget loads.
initWidgets ==
  LET s == FreeSlot
      config == StoredConfig(storage)
  IN IF Falsy(config)
     THEN /\ ops' = [ops EXCEPT ![s] = [kind |-> "init", pc |-> "fetch",
                                        stored |-> storage, from |-> entryFrom]]
          /\ loading' = TRUE
          /\ error' = "null"
          /\ ev' = <<>>
          /\ UNCHANGED <<widgets, gridColumns, widgetComponents, okResults>>
     ELSE \E rs \in [1..NumWidgets(config) -> Randoms] :
            HookContinue(s, "init", ConfigResult(config, rs), "null", TRUE, ops,
              <<[call |-> "loadWidgetConfig", stored |-> storage,
                 from |-> entryFrom, fetched |-> FALSE, fetch |-> Null,
                 outcome |-> ConfigResult(config, rs), line |-> 183]>>)

\* The effect of part_003 lines 50-73 runs when the hook is mounted.
Mount ==
  /\ ~mounted
  /\ mounted' = TRUE
  /\ initWidgets
  /\ UNCHANGED <<storage, loadedWidgets, refreshTrigger, started, reading, cmError,
                 lastStored, entryFrom, clears, sharedScopes, focusedWidgetId,
                 gridSteps, env>>
  /\ Rerender(TRUE)

\* reloadWidgets (part_003 lines 127-129); the change of refreshTrigger runs
\* the effect again. App itself never calls it; it is taken to be offered
\* where the dashboard is shown, that is, not while App shows the spinner.
reloadWidgets ==
  /\ mounted
  /\ ~loading
  /\ refreshTrigger < MaxReloads
  /\ CanStart
  /\ refreshTrigger' = refreshTrigger + 1
  /\ started' = started + 1
  /\ initWidgets
  /\ UNCHANGED <<storage, loadedWidgets, mounted, reading, cmError,
                 lastStored, entryFrom, clears, sharedScopes, focusedWidgetId,
                 gridSteps, env>>
  /\ Rerender(TRUE)

\* The fetch of loadWidgetConfig settles (widgetLoader.js lines 167-176) and
\* initWidgets goes on.
InitFetchSettles(s) ==
  /\ ops[s].kind = "init" /\ ops[s].pc = "fetch"
  /\ \E fetched \in env.fetch :
       \E rs \in [1..(IF fetched.ok THEN NumWidgets(fetched.value) ELSE 0) -> Randoms] :
         HookContinue(s, "init", ConfigAfterFetch(fetched, rs), error, loading, ops,
           <<[call |-> "loadWidgetConfig", stored |-> ops[s].stored,
              from |-> ops[s].from, fetched |-> TRUE, fetch |-> fetched,
              outcome |-> ConfigAfterFetch(fetched, rs),
              line |-> IF fetched.ok THEN 183 ELSE 175]>>)
  /\ UNCHANGED <<storage, loadedWidgets, refreshTrigger, mounted, started, reading,
                 cmError, lastStored, entryFrom, clears, sharedScopes, focusedWidgetId,
                 gridSteps, env>>
  /\ Rerender(FALSE)

\* updateConfig(newWidgets, newGridColumns) (part_003 lines 76-100) up to the
\* await of loadWidgets; newGridColumns is <<>> for undefined, else <<n>>.
updateConfig(newWidgets, newGridColumns, quotaExceeded, trace) ==
  /\ CanStart
  /\ started' = started + 1
  /\ LET s == FreeSlot
         cols == IF newGridColumns # <<>> THEN newGridColumns[1] ELSE gridColumns
         saved == saveWidgetConfig(newWidgets, cols, quotaExceeded)
         opsD == [t \in Slots |->
                    IF ops[t].kind = "reset" /\ ops[t].pc = "fetch"
                    THEN [ops[t] EXCEPT !.dirty = TRUE] ELSE ops[t]]
         call == [call |-> "saveWidgetConfig", widgets |-> newWidgets,
                  gridColumns |-> cols, outcome |-> saved]
     IN IF saved.ok
        THEN /\ storage' = saved.value
             /\ entryFrom' = [by |-> "saved", widgets |-> newWidgets, gridColumns |-> cols]
             /\ HookContinue(s, "update",
                  Return([gridColumns |-> cols, widgets |-> newWidgets]),
                  "null", TRUE, opsD, trace \o <<call>>)
        ELSE /\ HookContinue(s, "update", Throw(saved.error), "null", TRUE, ops,
                  trace \o <<call>>)
             /\ UNCHANGED <<storage, entryFrom>>
  /\ UNCHANGED <<loadedWidgets, refreshTrigger, mounted, lastStored, clears, sharedScopes, focusedWidgetId,
                 gridSteps, env>>

\* resetConfig (part_003 lines 103-124) up to the await of the fetch in
\* resetWidgetConfig (widgetLoader.js lines 246-252)
resetConfig ==
  /\ CanStart
  /\ started' = started + 1
  /\ loading' = TRUE
  /\ error' = "null"
  /\ storage' = removeItem(storage)
  /\ entryFrom' = [by |-> "removed"]
  /\ ops' = [ops EXCEPT ![FreeSlot] = [kind |-> "reset", pc |-> "fetch",
                                       removed |-> storage, dirty |-> FALSE]]
  /\ ev' = <<>>
  /\ UNCHANGED <<loadedWidgets, widgets, gridColumns, widgetComponents,
                 refreshTrigger, mounted, okResults, lastStored, clears, sharedScopes, focusedWidgetId,
                 gridSteps, env>>

\* The fetch of resetWidgetConfig settles (widgetLoader.js lines 252-264) and
\* resetConfig goes on.
ResetFetchSettles(s) ==
  /\ ops[s].kind = "reset" /\ ops[s].pc = "fetch"
  /\ entryFrom' = IF ops[s].dirty THEN entryFrom
                  ELSE [by |-> "reset", removed |-> ops[s].removed]
  /\ \E fetched \in env.fetch :
       HookContinue(s, "reset", ResetAfterFetch(fetched), error, loading, ops,
         <<[call |-> "resetWidgetConfig", removed |-> ops[s].removed,
            dirty |-> ops[s].dirty, fetch |-> fetched,
            outcome |-> ResetAfterFetch(fetched), entry |-> storage]>>)
  /\ UNCHANGED <<storage, loadedWidgets, refreshTrigger, mounted, started, reading,
                 cmError, lastStored, clears, sharedScopes, focusedWidgetId,
                 gridSteps, env>>
  /\ Rerender(FALSE)

\* ------------------------------------------------------------ loadWidget
\* Load i of operation s moves on to newLoad. When that settles it, the
\* callback of loadWidgets (part_003 lines 34-43) records the result, and
\* when it is the last one to settle, Promise.all resolves and the operation
\* runs to its end (setWidgetComponents, setLoading(false)).
LoadStep(s, i, newLoad, trace) ==
  LET op == ops[s]
      ls == [op.loads EXCEPT ![i] = newLoad]
      comps == IF Settled(newLoad) THEN Put(op.comps, IdOf(newLoad.w), newLoad.res)
               ELSE op.comps
      allSettled == \A j \in 1..Len(ls) : Settled(ls[j])
  IN IF ~allSettled
     THEN /\ ops' = [ops EXCEPT ![s] = [op EXCEPT !.loads = ls, !.comps = comps]]
          /\ ev' = trace
          /\ UNCHANGED <<widgetComponents, loading>>
     ELSE /\ ops' = [ops EXCEPT ![s] = Idle]
          /\ IF op.pc = "loads"
             THEN /\ widgetComponents' = comps
                  /\ loading' = FALSE
                  /\ ev' = trace \o <<[call |-> "loadWidgets", list |-> TRUE,
                                         loads |-> ls, rejected |-> FALSE,
                                         map |-> comps]>>
             ELSE /\ ev' = trace
                  /\ UNCHANGED <<widgetComponents, loading>>

\* The steps of an uncached loadWidget call that can throw (lines 109-121):
\* the import of the remote entry, container.init, container.get, factory().
LoadSteps == {"import", "init", "get", "factory"}

\* A cache that keeps the entry it has
CacheSetIfAbsent(cache, id, component) ==
  IF id \in DOMAIN cache THEN cache ELSE Put(cache, id, component)

\* loadedWidgets.set(id, Module.default || Module) (line 121)
CacheSet(cache, id, component) == Put(cache, id, component)

\* new Error(`Widget "${id}" failed to load: ${error.message}`) (line 126):
\* the message names the id and the cause's message.
LoadError(w, cause) == [id |-> IdOf(w), cause |-> cause]

\* A loadWidget call that starts over when a step has thrown
FailedLoadRetried(load) == load

\* The call after its catch block (lines 124-127): it has rejected.
FailedLoad(load) == [load EXCEPT !.pc = "failed", !.res = Null]

\* getSharedScope() (lines 49-82): the global __federation_shared__ when the
\* build has defined it, else an object this call constructs; n is the
\* number of registries constructed before, so that each constructed object
\* is told from the others.
getSharedScope(federation_shared, n) ==
  IF federation_shared THEN [global |-> "__federation_shared__"]
  ELSE [constructed |-> n + 1]

\* The steps of an uncached loadWidget call in the order the code takes
\* them (lines 109-121): the import of the remote entry, container.init,
\* container.get, factory() and loadedWidgets.set.
LoadOrder == <<"import", "init", "get", "factory", "set">>

\* A call that asks the container for the module before it initialises it
StepsRunGetFirst(failing) ==
  IF failing = "none" THEN <<"import", "get", "init", "factory", "set">>
  ELSE <<"import">>

\* The steps a call runs when the step failing throws: those up to it, the
\* catch block of line 124 skipping the rest; all of them when none throws.
StepsRun(failing) ==
  IF failing = "none" THEN LoadOrder
  ELSE SubSeq(LoadOrder, 1, CHOOSE k \in 1..Len(LoadOrder) : LoadOrder[k] = failing)

\* The calls of container.init among steps
InitCalls(steps) == Cardinality({k \in 1..Len(steps) : steps[k] = "init"})

\* A loadWidget call that has returned since the cache was last cleared got
\* its component from the container of url, which it had initialised.
InitialisedBefore(results, url) ==
  \E id \in DOMAIN results : \E c \in results[id] : c.url = url

\* The end of a loadWidget call, as an event: failing is the step that threw
\* ("none" when the call returned), steps the steps the call ran, entry what
\* the cache holds for the id afterwards (cachedBefore: whether it held one
\* when the call settled), after where the call stands, scope the registry
\* handed to container.init (null when the import threw and init was not
\* called) and initialisedBefore whether an earlier call had initialised the
\* container.
LoadEnd(w, failing, outcome, cache, after, scope) ==
  [call |-> "loadWidget.end", w |-> w, failing |-> failing, outcome |-> outcome,
   steps |-> StepsRun(failing),
   cachedBefore |-> IdOf(w) \in DOMAIN loadedWidgets,
   cached |-> IdOf(w) \in DOMAIN cache,
   entry |-> IF IdOf(w) \in DOMAIN cache THEN cache[IdOf(w)] ELSE Null,
   after |-> after.pc, scope |-> scope,
   initialisedBefore |-> InitialisedBefore(okResults, UrlOf(w))]

\* An uncached loadWidget call runs from its import to its end (lines
\* 109-127). Between the cache check and the cache write the call reads and
\* writes nothing any other call sees, so its awaits are taken in one step.
\* failing is the step that throws, "none" when the call returns and "hang"
\* when the import never settles (there is no timeout); outcomes are the
\* values of failing the remote can produce.
LoadSettlesWith(s, i, outcomes) ==
  /\ ops[s].kind # "idle"
  /\ ops[s].pc \in {"loads", "orphan"}
  /\ i \in 1..Len(ops[s].loads)
  /\ ops[s].loads[i].pc = "import"
  /\ \E failing \in outcomes :
       LET load == ops[s].loads[i]
           w == load.w
           sharedScope == getSharedScope(env.federation_shared, sharedScopes)
       IN
       IF failing = "none"
       THEN LET component == ComponentOf(w)
                cache == CacheSet(loadedWidgets, IdOf(w), component)
                done == [load EXCEPT !.pc = "ok", !.res = component]
            IN /\ loadedWidgets' = cache
               /\ okResults' = AddTo(okResults, IdOf(w), component)
               /\ lastStored' = Put(lastStored, IdOf(w), component)
               /\ sharedScopes' = IF Has(sharedScope, "constructed")
                                  THEN sharedScopes + 1 ELSE sharedScopes
               /\ LoadStep(s, i, done,
                    <<LoadEnd(w, failing, Return(component), cache, done,
                              sharedScope)>>)
       ELSE IF failing = "hang"
       THEN /\ ops' = [ops EXCEPT ![s].loads[i].pc = "hung"]
            /\ ev' = <<>>
            /\ UNCHANGED <<loadedWidgets, okResults, lastStored, widgetComponents,
                           loading, sharedScopes>>
       ELSE /\ LoadStep(s, i, FailedLoad(load),
                 <<LoadEnd(w, failing, Throw(LoadError(w, failing)), loadedWidgets,
                           FailedLoad(load),
                           IF failing = "import" THEN Null ELSE sharedScope)>>)
            /\ sharedScopes' = IF failing # "import" /\ Has(sharedScope, "constructed")
                               THEN sharedScopes + 1 ELSE sharedScopes
            /\ UNCHANGED <<loadedWidgets, okResults, lastStored>>
  /\ UNCHANGED <<storage, widgets, gridColumns, error, refreshTrigger, mounted,
                 started, reading, cmError, entryFrom, clears, focusedWidgetId,
                 gridSteps, env>>
  /\ Rerender(FALSE)

\* What can become of an uncached loadWidget call
LoadOutcomes == LoadSteps \cup {"none", "hang"}

LoadSettles(s, i) == LoadSettlesWith(s, i, LoadOutcomes)

\* The same when every import of a remote entry settles.
LoadSettlesEventually(s, i) == LoadSettlesWith(s, i, LoadOutcomes \ {"hang"})

\* clearWidgetCache (widgetLoader.js lines 270-272)
clearWidgetCache ==
  /\ clears < MaxClears
  /\ clears' = clears + 1
  /\ loadedWidgets' = <<>>
  /\ okResults' = <<>>
  /\ lastStored' = <<>>
  /\ ev' = <<>>
  /\ UNCHANGED <<storage, widgets, gridColumns, widgetComponents, loading, error,
                 refreshTrigger, mounted, ops, started, reading, cmError,
                 entryFrom, sharedScopes, focusedWidgetId,
                 gridSteps, env>>
  /\ Rerender(FALSE)

\* --------------------------------------------------------- ConfigManager
\* The try block shared by handleImportText, handleSaveEdit and the onload
\* callback of handleImportFile (part_002 lines 47-55, 66-74, 89-97).
ImportAndUpdate(text) ==
  LET config == importWidgetConfig(text)
      call == [call |-> "importWidgetConfig", text |-> text, outcome |-> config,
               entryBefore |-> storage, entryAfter |-> importStorage(storage, text)]
      before == [widgets |-> widgets, gridColumns |-> gridColumns, storage |-> storage]
  IN IF config.ok
     THEN /\ \E quotaExceeded \in BOOLEAN :
               updateConfig(config.value.widgets, <<config.value.gridColumns>>,
                            quotaExceeded, <<call>>)
          /\ UNCHANGED cmError
     ELSE /\ cmError' = config.error
          /\ ev' = <<call, [call |-> "handler.catch", before |-> before]>>
          /\ storage' = importStorage(storage, text)
          /\ UNCHANGED <<loadedWidgets, widgets, gridColumns,
                         widgetComponents, loading, error, refreshTrigger, mounted,
                         ops, started, okResults, lastStored, entryFrom, clears, sharedScopes, focusedWidgetId,
                 gridSteps, env>>

\* What the editor shows after handleOpen (part_002 line 22); App passes no
\* gridColumns, so the parameter's default 3 is shown.
EditorText == JSONstringify(3, widgets)

handleImportText ==
  /\ ConfigManagerShown
  /\ \E text \in env.texts \cup {EditorText} : ImportAndUpdate(text)
  /\ UNCHANGED reading
  /\ Rerender(TRUE)

handleSaveEdit ==
  /\ ConfigManagerShown
  /\ \E text \in env.texts \cup {EditorText} : ImportAndUpdate(text)
  /\ UNCHANGED reading
  /\ Rerender(TRUE)

\* What the hook and the loader hold, for the events of the grid.
HostState ==
  [widgets |-> widgets, gridColumns |-> gridColumns,
   widgetComponents |-> widgetComponents, loading |-> loading, error |-> error,
   storage |-> storage, focusedWidgetId |-> focusedWidgetId,
   boundaries |-> boundaries]

\* The exportWidgetConfig(widgets) of the loader's first version
\* (widgetLoader.js lines 415-427), which serializes the widgets only
exportWidgetConfigWidgetsOnly(ws, gridCols) == [json |-> [widgets |-> ws]]

\* exportWidgetConfig(widgets, gridColumns) (widgetLoader.js lines 207-219):
\* the text of the file it offers for download. It reads and writes nothing
\* of localStorage and of the hook.
exportWidgetConfig(ws, gridCols) == JSONstringify(gridCols, ws)

\* handleExport (part_002 lines 31-39). cols is the gridColumns prop of
\* ConfigManager: 3, the default, in the App of part_004, which passes none,
\* and the hook's gridColumns in a host that passes it.
handleExport ==
  /\ ConfigManagerShown
  /\ \E cols \in {3, gridColumns} :
       ev' = <<[call |-> "exportWidgetConfig", widgets |-> widgets,
                gridColumns |-> cols,
                text |-> exportWidgetConfig(widgets, cols),
                before |-> HostState]>>
  /\ UNCHANGED <<storage, loadedWidgets, widgets, gridColumns, widgetComponents,
                 loading, error, refreshTrigger, mounted, ops, started, reading,
                 cmError, okResults, lastStored, entryFrom, clears, sharedScopes,
                 focusedWidgetId, boundaries, gridSteps, env>>

\* handleImportFile up to reader.readAsText(file) (part_002 lines 41-57)
handleImportFile ==
  /\ ConfigManagerShown
  /\ Cardinality(reading) < MaxReads
  /\ \E text \in env.files : reading' = reading \cup {text}
  /\ ev' = <<>>
  /\ UNCHANGED <<storage, loadedWidgets, widgets, gridColumns, widgetComponents,
                 loading, error, refreshTrigger, mounted, ops, started, cmError,
                 okResults, lastStored, entryFrom, clears, sharedScopes, focusedWidgetId,
                 gridSteps, env>>
  /\ Rerender(FALSE)

\* reader.onload (part_002 lines 46-56)
FileReaderOnload ==
  \E text \in reading :
    /\ reading' = reading \ {text}
    /\ ImportAndUpdate(text)
    /\ \E flushed \in BOOLEAN : Rerender(flushed)

\* handleReset, the user confirming (part_002 lines 77-86)
handleReset ==
  /\ ConfigManagerShown
  /\ resetConfig
  /\ UNCHANGED <<reading, cmError>>
  /\ Rerender(TRUE)

\* ------------------------------------------------ WidgetGrid, gestures
\* App's part in focus and reorder is not among the sources: onFocus,
\* onExitFocus and onReorder are taken from the specification (4.4).

\* The widget grid with at least one cell is on the page.
GridOnPage ==
  /\ WidgetGridShown(loading, error)
  /\ IsArray(widgets)
  /\ Len(widgets.arr) > 0
  /\ gridSteps < MaxGridSteps

\* What onFocus(id) makes of the focused widget: id becomes the focused one,
\* whatever was focused before (specification 4.4).
handleFocus(focused, id) == [id |-> id]

\* What onExitFocus() makes of the focused widget: none is (specification
\* 4.4).
handleExitFocus(focused) == Null

\* The focus button of a widget's header (WidgetContainer.jsx lines 161-170),
\* rendered outside focus mode only (line 155): onFocus(widget.id), which
\* makes that widget the focused one.
onFocus ==
  /\ GridOnPage
  /\ ~isFocusMode(focusedWidgetId)
  /\ \E j \in 1..Len(widgets.arr) :
       /\ focusedWidgetId' = handleFocus(focusedWidgetId, IdOf(widgets.arr[j]))
       /\ ev' = <<[call |-> "onFocus", position |-> j, before |-> HostState]>>
  /\ gridSteps' = gridSteps + 1
  /\ UNCHANGED <<storage, loadedWidgets, widgets, gridColumns, widgetComponents,
                 loading, error, refreshTrigger, mounted, ops, started, reading,
                 cmError, okResults, lastStored, entryFrom, clears, sharedScopes,
                 env>>
  /\ Rerender(FALSE)

\* The exit button (lines 244-248, rendered in focus mode when the list is
\* not empty) or the Escape key (lines 217-226): onExitFocus(), which leaves
\* no widget focused.
onExitFocus ==
  /\ WidgetGridShown(loading, error)
  /\ gridSteps < MaxGridSteps
  /\ isFocusMode(focusedWidgetId)
  /\ \E by \in {"button", "Escape"} :
       /\ by = "button" => IsArray(widgets) /\ Len(widgets.arr) > 0
       /\ ev' = <<[call |-> "onExitFocus", by |-> by, before |-> HostState]>>
  /\ focusedWidgetId' = handleExitFocus(focusedWidgetId)
  /\ gridSteps' = gridSteps + 1
  /\ UNCHANGED <<storage, loadedWidgets, widgets, gridColumns, widgetComponents,
                 loading, error, refreshTrigger, mounted, ops, started, reading,
                 cmError, okResults, lastStored, entryFrom, clears, sharedScopes,
                 env>>
  /\ Rerender(FALSE)

\* A drag that starts in focus mode all the same
DragAlwaysEnabled(focusMode) == TRUE

\* A drag can start: the sortable is not disabled (lines 135-138), the header
\* with the listeners is rendered (line 155) and DndContext has its sensors
\* (line 250).
DragEnabled(focusMode) == ~focusMode

\* widgets.findIndex(w => w.id === id), counted from 1 (0 for -1)
findIndex(ws, id) ==
  IF \E j \in 1..Len(ws) : IdOf(ws[j]) = id
  THEN Min({j \in 1..Len(ws) : IdOf(ws[j]) = id}) ELSE 0

\* The list with the item at index from removed and reinserted at index to
\* (specification 4.4)
arrayMove(array, from, to) ==
  LET rest == SubSeq(array, 1, from - 1) \o SubSeq(array, from + 1, Len(array))
  IN SubSeq(rest, 1, to - 1) \o <<array[from]>> \o SubSeq(rest, to, Len(rest))

\* onReorder(oldIndex, newIndex): the list is reordered and the new order is
\* handed to saveWidgetConfig (specification 4.4); the list stays reordered
\* in memory when the save fails (specification 7).
onReorder(oldIndex, newIndex, quotaExceeded, trace) ==
  LET newWidgets == Arr(arrayMove(widgets.arr, oldIndex, newIndex))
      saved == saveWidgetConfig(newWidgets, gridColumns, quotaExceeded)
  IN /\ widgets' = newWidgets
     /\ boundaries' = arrayMove(boundaries, oldIndex, newIndex)
     /\ ev' = trace \o <<[call |-> "saveWidgetConfig", widgets |-> newWidgets,
                          gridColumns |-> gridColumns, outcome |-> saved]>>
     /\ IF saved.ok
        THEN /\ storage' = saved.value
             /\ entryFrom' = [by |-> "saved", widgets |-> newWidgets,
                              gridColumns |-> gridColumns]
             /\ ops' = [t \in Slots |->
                          IF ops[t].kind = "reset" /\ ops[t].pc = "fetch"
                          THEN [ops[t] EXCEPT !.dirty = TRUE] ELSE ops[t]]
        ELSE UNCHANGED <<storage, entryFrom, ops>>

\* handleDragEnd (lines 206-214) for the drag of the cell at position i that
\* ends over the cell at position o, or over no cell (o = 0, event.over is
\* null). over?.id is undefined when over is null, and so is the id of a
\* descriptor without one; when the test of line 209 passes with over null,
\* line 211 reads over.id of null and the handler throws a TypeError before
\* it calls onReorder.
handleDragEnd ==
  /\ GridOnPage
  /\ DragEnabled(isFocusMode(focusedWidgetId))
  /\ gridSteps' = gridSteps + 1
  /\ LET cells == Range(displayWidgets(widgets.arr, focusedWidgetId)) IN
     \E i \in cells : \E o \in cells \cup {0} :
       LET active == [id |-> IdOf(widgets.arr[i])]
           over == IF o = 0 THEN Null ELSE [id |-> IdOf(widgets.arr[o])]
           overId == IF IsNull(over) THEN UndefinedId ELSE over.id
           call == [call |-> "handleDragEnd", from |-> i, onto |-> o,
                    before |-> HostState,
                    outcome |-> IF active.id # overId /\ IsNull(over)
                                THEN Throw("TypeError") ELSE Return(Null)]
       IN IF active.id = overId \/ IsNull(over)
          THEN /\ ev' = <<call>>
               /\ UNCHANGED <<storage, widgets, boundaries, entryFrom, ops>>
          ELSE \E quotaExceeded \in BOOLEAN :
                 onReorder(findIndex(widgets.arr, active.id),
                           findIndex(widgets.arr, over.id), quotaExceeded, <<call>>)
  /\ UNCHANGED <<loadedWidgets, gridColumns, widgetComponents, loading, error,
                 refreshTrigger, mounted, started, reading, cmError, okResults,
                 lastStored, clears, sharedScopes, focusedWidgetId, env>>

\* The errors a widget raises while it renders or in a lifecycle method.
RenderErrors == {[message |-> "boom"]}

\* A widget that is rendered throws while rendering or in a lifecycle method;
\* React hands the error to the nearest boundary above it, the
\* WidgetErrorBoundary of its container (lines 174-178).
WidgetThrows ==
  /\ GridOnPage
  /\ \E j \in Range(displayWidgets(widgets.arr, focusedWidgetId)) :
     \E err \in RenderErrors :
       /\ ~boundaries[j].hasError
       /\ CellChildren(widgets.arr[j], widgetComponents) # FailurePanel
       /\ boundaries' = [boundaries EXCEPT ![j] = getDerivedStateFromError(err)]
       /\ ev' = <<[call |-> "componentDidCatch", position |-> j, error |-> err,
                   before |-> HostState]>>
  /\ gridSteps' = gridSteps + 1
  /\ UNCHANGED <<storage, loadedWidgets, widgets, gridColumns, widgetComponents,
                 loading, error, refreshTrigger, mounted, ops, started, reading,
                 cmError, okResults, lastStored, entryFrom, clears, sharedScopes,
                 focusedWidgetId, env>>

Next ==
  \/ Mount
  \/ \E s \in Slots : InitFetchSettles(s)
  \/ reloadWidgets
  \/ handleImportText
  \/ handleSaveEdit
  \/ handleImportFile
  \/ FileReaderOnload
  \/ handleReset
  \/ \E s \in Slots : ResetFetchSettles(s)
  \/ \E s \in Slots : \E i \in 1..MaxWidgets : LoadSettles(s, i)
  \/ clearWidgetCache

Spec == Init /\ [][Next]_vars

\* The dashboard with its grid in use: the page is opened, the user edits
\* the configuration, focuses and drags widgets, and widgets fail.
GridNext ==
  \/ Mount
  \/ \E s \in Slots : InitFetchSettles(s)
  \/ \E s \in Slots : \E i \in 1..MaxWidgets : LoadSettles(s, i)
  \/ handleSaveEdit
  \/ handleImportFile
  \/ FileReaderOnload
  \/ onFocus
  \/ onExitFocus
  \/ handleDragEnd
  \/ WidgetThrows

GridSpec == Init /\ [][GridNext]_vars

\* The configuration dialog in use: the page is opened, the user edits the
\* configuration and exports it.
ExportNext ==
  \/ Mount
  \/ \E s \in Slots : InitFetchSettles(s)
  \/ \E s \in Slots : \E i \in 1..MaxWidgets : LoadSettles(s, i)
  \/ handleSaveEdit
  \/ handleExport

ExportSpec == Init /\ [][ExportNext]_vars

\* The hook's operations (initial load, updateConfig, resetConfig, reload)
\* with remotes that always answer: every fetch and every step of a load
\* eventually settles, and React runs the effect of a mounted hook.
LiveNext ==
  \/ Mount
  \/ \E s \in Slots : InitFetchSettles(s)
  \/ reloadWidgets
  \/ handleSaveEdit
  \/ handleImportFile
  \/ FileReaderOnload
  \/ handleReset
  \/ \E s \in Slots : ResetFetchSettles(s)
  \/ \E s \in Slots : \E i \in 1..MaxWidgets : LoadSettlesEventually(s, i)

LiveSpec ==
  /\ Init
  /\ [][LiveNext]_vars
  /\ WF_vars(Mount)
  /\ WF_vars(\E s \in Slots : InitFetchSettles(s))
  /\ WF_vars(\E s \in Slots : ResetFetchSettles(s))
  /\ WF_vars(\E s \in Slots : \E i \in 1..MaxWidgets : LoadSettlesEventually(s, i))

\* ------------------------------------------------------------------ claims
\* The loadWidget calls of the last step that were made after a call for the
\* same id had completed successfully, with no clearWidgetCache since.
LateCalls ==
  {i \in 1..Len(ev) : ev[i].call = "loadWidget" /\ ev[i].prior # {}}

\* C1, as claimed: once a loadWidget call for an id has completed
\* successfully, every later call for that id (no clearWidgetCache in
\* between) is served without fetch, init or get and returns the
\* reference-identical component, that is, the one component the earlier
\* completed calls returned.
C1_LaterCallIdentical ==
  \A i \in LateCalls : ev[i].hit /\ ev[i].prior = {ev[i].ret}

\* C1, amended: such a later call is served from the cache (no fetch, init or
\* get) and returns the component the latest loadedWidgets.set for that id
\* stored, which an earlier completed call returned.
C1_LaterCallCached ==
  \A i \in LateCalls :
    /\ ev[i].hit
    /\ IdOf(ev[i].w) \in DOMAIN lastStored
    /\ ev[i].ret = lastStored[IdOf(ev[i].w)]
    /\ ev[i].ret \in ev[i].prior

C1_Witness ==
  \E i \in LateCalls : ev[i].hit /\ ev[i].prior = {ev[i].ret}

\* The calls of the last step, by the function called.
Calls(f) == {i \in 1..Len(ev) : ev[i].call = f}

\* C2: loadWidgetConfig is total: whatever the persisted entry holds and
\* however the fetch of the default document ends, it returns a
\* configuration and never raises, so initWidgets never sets the hook's error
\* because of it.
C2_LoadConfigTotal ==
  \A i \in Calls("loadWidgetConfig") : ev[i].outcome.ok

\* A descriptor list entry that is an object with its id, module, props, cols
\* and rows filled in.
FullySpecified(w) ==
  /\ ~IsNull(w)
  /\ {"id", "module", "props", "cols", "rows"} \subseteq DOMAIN w
  /\ w.id # <<>> /\ w.module # "" /\ w.cols # 0 /\ w.rows # 0

\* C3: loadWidgets applied to a list of widgets always resolves, whichever of
\* its loadWidget calls fail, with a map holding an entry for every
\* descriptor id: the component where the load succeeded and null where it
\* failed.
C3_FanOutNeverRejects ==
  \A i \in Calls("loadWidgets") :
    ev[i].list =>
      /\ ~ev[i].rejected
      /\ \A j \in 1..Len(ev[i].loads) :
           LET l == ev[i].loads[j] IN
           /\ IdOf(l.w) \in DOMAIN ev[i].map
           /\ ev[i].map[IdOf(l.w)] = l.res
           /\ l.pc \in {"failed", "threw"} <=> IsNull(l.res)

\* A value JSON.parse can return that is neither null, false, 0 nor "".
Truthy(v) == ~Falsy(v)

C5_LoadWidgetGetsNormalized ==
  \A i \in Calls("loadWidget") : FullySpecified(ev[i].w)

\* C6: importWidgetConfig applied to valid input returns what
\* loadWidgetConfig makes of the same document: the widgets normalized (id,
\* module './Widget', props {}, cols 1, rows 1 filled in where absent) and
\* gridColumns 3 when absent.
C6_ImportNormalizes ==
  \A i \in Calls("importWidgetConfig") :
    ev[i].outcome.ok =>
      \E rs \in [1..NumWidgets(ev[i].text.json) -> Randoms] :
        ev[i].outcome = ConfigResult(ev[i].text.json, rs)

\* C7: resetWidgetConfig, when the fetch of the default document succeeds,
\* returns a configuration whose widgets are all normalized.
C7_ResetNormalizes ==
  \A i \in Calls("resetWidgetConfig") :
    ev[i].fetch.ok =>
      /\ ev[i].outcome.ok
      /\ IsArray(ev[i].outcome.value.widgets)
      /\ \A j \in 1..Len(ev[i].outcome.value.widgets.arr) :
           FullySpecified(ev[i].outcome.value.widgets.arr[j])

\* A document holding a list of widget objects, as widgets.json does.
ConfigDocument(doc) ==
  /\ ~IsNull(doc)
  /\ Has(doc, "widgets") => /\ IsArray(doc.widgets)
                            /\ \A j \in 1..Len(doc.widgets.arr) : ~IsNull(doc.widgets.arr[j])

\* C8: once resetWidgetConfig has returned, with nothing saved since it was
\* called, the persisted entry is absent, and a loadWidgetConfig that follows
\* (still nothing saved) fetches the default document and, the fetch
\* succeeding, returns what it makes of that document: its gridColumns and
\* its widgets, normalized, and nothing of the entry that was removed.
C8_ResetThenLoadDefault ==
  /\ \A i \in Calls("resetWidgetConfig") : ~ev[i].dirty => ev[i].entry = NoItem
  /\ entryFrom.by = "reset" => storage = NoItem
  /\ \A i \in Calls("loadWidgetConfig") :
       LET e == ev[i] IN
       e.from.by = "reset" =>
         /\ e.stored = NoItem
         /\ e.fetched
         /\ e.fetch.ok =>
              /\ \E rs \in [1..NumWidgets(e.fetch.value) -> Randoms] :
                   e.outcome = ConfigResult(e.fetch.value, rs)
              /\ ConfigDocument(e.fetch.value) =>
                   /\ e.outcome.ok
                   /\ e.outcome.value.gridColumns = GridColumnsOr3(e.fetch.value)
                   /\ Len(e.outcome.value.widgets.arr) = NumWidgets(e.fetch.value)

\* A reload after a reset that removed the saved [a, b] with 2 columns
\* returns the default document's one widget with 3 columns.
C8_Witness ==
  \E i \in Calls("loadWidgetConfig") :
    /\ ev[i].from.by = "reset"
    /\ ev[i].from.removed = TNorm
    /\ ev[i].fetch = Return(TRaw.json)
    /\ ev[i].outcome.ok
    /\ ev[i].outcome.value.gridColumns = 3
    /\ Len(ev[i].outcome.value.widgets.arr) = 1

\* A list of fully specified descriptors.
NormalizedList(ws) ==
  IsArray(ws) /\ \A j \in 1..Len(ws.arr) : FullySpecified(ws.arr[j])

\* C9: after saveWidgetConfig(widgets, gridColumns) has succeeded with
\* normalized widgets, a loadWidgetConfig that follows, with no reset and no
\* other save in between, returns the same gridColumns and the same widgets
\* in the same order and does not fetch the default document.
C9_SaveLoadRoundTrip ==
  \A i \in Calls("loadWidgetConfig") :
    LET e == ev[i] IN
    e.from.by = "saved" /\ NormalizedList(e.from.widgets) =>
      /\ ~e.fetched
      /\ e.outcome = Return([gridColumns |-> e.from.gridColumns,
                             widgets |-> e.from.widgets])

C9_Witness ==
  \E i \in Calls("loadWidgetConfig") :
    /\ ev[i].from.by = "saved"
    /\ ev[i].from.widgets = Arr(<<WA1, WB>>)
    /\ ev[i].from.gridColumns = 2
    /\ ev[i].outcome = Return([gridColumns |-> 2, widgets |-> Arr(<<WA1, WB>>)])

\* A text importWidgetConfig has to reject: no valid JSON, or JSON without a
\* widgets field, or with one that is no array.
InvalidImport(text) ==
  \/ ~Has(text, "json")
  \/ IsNull(text.json)
  \/ ~Has(text.json, "widgets")
  \/ ~IsArray(text.json.widgets)

\* C10: importWidgetConfig throws on every such text, and the handler that
\* called it then calls nothing else and leaves the hook's widgets and
\* gridColumns and the persisted entry as they were.
C10_RejectedImportChangesNothing ==
  \A i \in Calls("importWidgetConfig") :
    /\ InvalidImport(ev[i].text) => ~ev[i].outcome.ok
    /\ ~ev[i].outcome.ok =>
         /\ Len(ev) = 2
         /\ ev[2].call = "handler.catch"
         /\ ev[2].before = [widgets |-> widgets, gridColumns |-> gridColumns,
                            storage |-> storage]

\* {"notWidgets": []} is rejected while the dashboard shows two widgets read
\* from the persisted entry.
C10_Witness ==
  \E i \in Calls("importWidgetConfig") :
    /\ ev[i].text = TNoWidgets
    /\ ~ev[i].outcome.ok
    /\ cmError = "Import failed: Invalid config format"
    /\ widgets # Arr(<<>>)

\* C11: importWidgetConfig itself leaves the persisted entry as it was, for
\* a text it accepts and for a text it rejects; after a rejected text the
\* entry is still the same when the handler is done.
C11_ImportLeavesStorage ==
  \A i \in Calls("importWidgetConfig") :
    /\ ev[i].entryAfter = ev[i].entryBefore
    /\ ~ev[i].outcome.ok => storage = ev[i].entryBefore

\* An accepted text with an entry present; the caller's save then failed, so
\* the entry is still the earlier one.
C11_Witness ==
  \E i \in Calls("importWidgetConfig") :
    /\ ev[i].entryBefore = TNorm
    /\ ev[i].text = TDup
    /\ ev[i].outcome.ok
    /\ storage = TNorm

\* The document a loadWidgetConfig call normalized, and the widgets it
\* returned.
SourceOf(e) == IF e.fetched THEN e.fetch.value ELSE e.stored.json
WidgetsOf(e) == e.outcome.value.widgets.arr

\* C12: the widgets of a configuration that one normalization pass of
\* loadWidgetConfig produced have non-empty ids that are pairwise distinct.
C12_IdsDistinct ==
  \A i \in Calls("loadWidgetConfig") :
    ev[i].outcome.ok =>
      \A j, k \in 1..Len(WidgetsOf(ev[i])) :
        /\ WidgetsOf(ev[i])[j].id # <<>>
        /\ j # k => WidgetsOf(ev[i])[j].id # WidgetsOf(ev[i])[k].id

\* The characters of [a-z0-9].
Alphanumeric == KebabChars \ {"-"}

\* C13: a raw descriptor with a name and without id, module, props, cols and
\* rows is normalized to the slug of its name, '-' and exactly 4 alphanumeric
\* characters as id, module './Widget', props {}, cols 1 and rows 1.
C13_NamedDescriptorDefaults ==
  \A i \in Calls("loadWidgetConfig") :
    ev[i].outcome.ok /\ ev[i].line = 183 /\ NumWidgets(SourceOf(ev[i])) > 0 =>
      \A j \in 1..Len(WidgetsOf(ev[i])) :
        LET raw == SourceOf(ev[i]).widgets.arr[j]
            n == WidgetsOf(ev[i])[j]
        IN Has(raw, "name")
           /\ DOMAIN raw \cap {"id", "module", "props", "cols", "rows"} = {} =>
             LET slug == Kebab(raw.name) IN
             /\ Len(n.id) = Len(slug) + 5
             /\ SubSeq(n.id, 1, Len(slug) + 1) = slug \o <<"-">>
             /\ \A c \in Len(slug) + 2..Len(n.id) : n.id[c] \in Alphanumeric
             /\ n.module = "./Widget" /\ n.props = <<>> /\ n.cols = 1 /\ n.rows = 1

\* C14: every normalized descriptor has cols >= 1, rows >= 1 and props that
\* is not null, whatever the raw object carried.
C14_ColsRowsPropsValid ==
  \A i \in Calls("loadWidgetConfig") :
    ev[i].outcome.ok =>
      \A j \in 1..Len(WidgetsOf(ev[i])) :
        /\ WidgetsOf(ev[i])[j].cols >= 1
        /\ WidgetsOf(ev[i])[j].rows >= 1
        /\ ~IsNull(WidgetsOf(ev[i])[j].props)

\* No initWidgets, updateConfig or resetConfig is in flight.
NoOperationInFlight == \A s \in Slots : ops[s].kind = "idle"

\* C15: whenever the hook is mounted, no operation of it is in flight and a
\* persisted entry exists, the entry holds the { gridColumns, widgets } the hook has in
\* memory.
C15_PersistedEqualsMemory ==
  mounted /\ NoOperationInFlight /\ storage # NoItem =>
    /\ Has(storage, "json")
    /\ storage.json = [gridColumns |-> gridColumns, widgets |-> widgets]

\* C16: when saveWidgetConfig raises a storage write failure, the hook's
\* error stays unset, so that App goes on rendering the widgets the hook
\* holds.
C16_SaveFailureKeepsDashboard ==
  \A i \in Calls("saveWidgetConfig") :
    ~ev[i].outcome.ok => error = "null" /\ ~loading /\ IsArray(widgets)

\* The loadWidget calls started by operation s that have not settled.
UnsettledLoads(s) ==
  IF ops[s].kind = "idle" \/ ops[s].pc \notin {"loads", "orphan"} THEN {}
  ELSE {i \in 1..Len(ops[s].loads) : ~Settled(ops[s].loads[i])}

\* C17: loading is false only when every widget load that was started has
\* settled.
C17_LoadingUntilAllSettled ==
  ~loading => \A s \in Slots : UnsettledLoads(s) = {}

\* Operation s loads the widgets the hook holds, one of its loads hangs and
\* all its others have settled: the operation has no step left to take.
HungWithOthersSettled(s) ==
  /\ ops[s].kind # "idle" /\ ops[s].pc = "loads"
  /\ widgets = Arr([j \in 1..Len(ops[s].loads) |-> ops[s].loads[j].w])
  /\ \E j \in 1..Len(ops[s].loads) : ops[s].loads[j].pc = "hung"
  /\ \A j \in 1..Len(ops[s].loads) : ops[s].loads[j].pc = "hung" \/ Settled(ops[s].loads[j])

\* C18: a load that never settles keeps only its own cell waiting: once the
\* other loads of its operation have settled, the dashboard is shown and
\* each of those widgets is rendered with what its load gave, the component
\* or the failure panel of a null entry.
C18_HungLoadIsolated ==
  \A s \in Slots :
    HungWithOthersSettled(s) /\ (\A t \in Slots \ {s} : ops[t].kind = "idle") =>
      /\ ~loading
      /\ \A j \in 1..Len(ops[s].loads) :
           LET l == ops[s].loads[j] IN
           Settled(l) => /\ IdOf(l.w) \in DOMAIN widgetComponents
                         /\ widgetComponents[IdOf(l.w)] = l.res

\* The calls with which a step begins when it is the initial load or one of
\* the user's recovery actions (reload, import or edit, reset) or goes on
\* with one after its fetch.
UserActionCalls == {"loadWidgetConfig", "importWidgetConfig", "resetWidgetConfig"}

C20_LoadErrorCarriesIdUrlCause ==
  \A i \in Calls("loadWidget.end") :
    ev[i].failing # "none" =>
      /\ ev[i].outcome = Throw([id |-> IdOf(ev[i].w), url |-> UrlOf(ev[i].w),
                                cause |-> ev[i].failing])
      /\ ~ev[i].cached

\* C21: within one session exactly one shared-scope registry object is
\* constructed, and every container.init performed by a loadWidget call
\* receives that same registry object: the global of the build or the first
\* object getSharedScope constructed.
C21_OneSharedScope ==
  /\ sharedScopes <= 1
  /\ \A i \in Calls("loadWidget.end") :
       ~IsNull(ev[i].scope) =>
         ev[i].scope \in {getSharedScope(TRUE, 0), getSharedScope(FALSE, 0)}

\* The ids of the descriptors of a widget list (none when it is no array).
IdsIn(ws) ==
  IF IsArray(ws) THEN {IdOf(ws.arr[j]) : j \in 1..Len(ws.arr)} ELSE {}

\* C22: a loader cache entry for an id is created by the first settled load
\* of that id, successful or failed, and then stays in place until
\* clearWidgetCache or the removal of that widget from the configuration,
\* each of which removes it.
C22_CacheEntryLifecycle ==
  [][/\ \A i \in 1..Len(ev') :
          ev'[i].call = "loadWidget.end" => IdOf(ev'[i].w) \in DOMAIN loadedWidgets'
     /\ \A id \in DOMAIN loadedWidgets :
          id \in DOMAIN loadedWidgets' <=>
            ~(clears' # clears \/ id \in IdsIn(widgets) \ IdsIn(widgets'))]_vars

\* C30: when the fetch of the default document fails during a reset,
\* resetWidgetConfig has still deleted the persisted entry (it is absent on
\* return unless something was saved meanwhile) and returns the empty
\* configuration, gridColumns 3 and no widgets, without raising; resetConfig
\* then shows that configuration.
C30_ResetFetchFailureGivesEmpty ==
  \A i \in Calls("resetWidgetConfig") :
    ~ev[i].fetch.ok =>
      /\ ev[i].outcome = Return([gridColumns |-> 3, widgets |-> Arr(<<>>)])
      /\ ~ev[i].dirty => ev[i].entry = NoItem /\ storage = NoItem
      /\ widgets = Arr(<<>>)
      /\ gridColumns = 3
      /\ Calls("handler.catch") = {}

\* A reset that removed the saved [a, b] and whose fetch failed.
C30_Witness ==
  \E i \in Calls("resetWidgetConfig") :
    /\ ~ev[i].fetch.ok
    /\ ev[i].removed = TNorm
    /\ ~ev[i].dirty
    /\ storage = NoItem
    /\ widgets = Arr(<<>>)

\* The sequence without its k-th element.
Without(seq, k) == SubSeq(seq, 1, k - 1) \o SubSeq(seq, k + 1, Len(seq))

\* C23: a completed drag of the widget at index i onto the widget at index
\* j, i # j, yields a list of the same length and the same set of ids in
\* which the dragged widget sits at index j and all other widgets keep their
\* relative order; a drag dropped on its own position changes nothing.
C23_DragMovesWidget ==
  \A e \in Calls("handleDragEnd") :
    LET b == ev[e].before.widgets.arr
        a == widgets.arr
        i == ev[e].from
        j == ev[e].onto
    IN j # 0 =>
         IF i = j THEN a = b
         ELSE /\ Len(a) = Len(b)
              /\ IdsIn(widgets) = IdsIn(ev[e].before.widgets)
              /\ a[j] = b[i]
              /\ Without(a, j) = Without(b, i)

\* C24: while focus mode is active no reorder can happen: in a state where
\* a widget is focused no drag starts or ends, and the pointer interaction
\* left there, the exit button, leaves the order of the widgets as it is.
C24_NoDragInFocusMode ==
  /\ \A e \in Calls("handleDragEnd") : ~isFocusMode(ev[e].before.focusedWidgetId)
  /\ \A e \in Calls("onExitFocus") : widgets = ev[e].before.widgets

\* A widget of a list of two is focused, and a drag had reordered the list
\* before.
C24_Witness ==
  /\ isFocusMode(focusedWidgetId)
  /\ WidgetGridShown(loading, error)
  /\ Calls("onFocus") # {}
  /\ widgets = Arr(<<WB, WA1>>)

\* C25: in every state where focus mode is active on widget X and the grid
\* is on the page, exactly one widget cell is rendered and it is the cell of
\* X.
C25_FocusShowsOneCell ==
  (WidgetGridShown(loading, error) /\ isFocusMode(focusedWidgetId)) =>
    LET cells == WidgetGrid(widgets.arr, widgetComponents, focusedWidgetId,
                            boundaries)
    IN /\ Len(cells) = 1
       /\ cells[1].key = focusedWidgetId.id

\* The positions of the cells WidgetGrid renders now, in order.
CellPositions ==
  LET cells == WidgetGrid(widgets.arr, widgetComponents, focusedWidgetId,
                          boundaries)
  IN [k \in 1..Len(cells) |-> cells[k].position]

\* C26: entering focus mode and exiting it, by the exit button or the Escape
\* key, each leave the widget list, its order and the component map
\* unchanged, and the grid shown after the exit is the full grid, one cell
\* per widget in the order of the list.
C26_FocusRoundTrip ==
  /\ \A e \in Calls("onFocus") \cup Calls("onExitFocus") :
       /\ widgets = ev[e].before.widgets
       /\ widgetComponents = ev[e].before.widgetComponents
  /\ \A e \in Calls("onExitFocus") :
       /\ WidgetGridShown(loading, error)
       /\ CellPositions = [j \in 1..Len(widgets.arr) |-> j]

\* Escape has ended the focus on one of two widgets.
C26_Witness ==
  \E e \in Calls("onExitFocus") :
    /\ ev[e].by = "Escape"
    /\ isFocusMode(ev[e].before.focusedWidgetId)
    /\ Len(widgets.arr) = 2
    /\ CellPositions = <<1, 2>>

\* C27: for every descriptor of the widget list whose cell is rendered and
\* that has no component in widgetComponents (the entry is missing or null)
\* the cell holds the failure panel, and the cell of every other descriptor
\* holds that descriptor's component; outside focus mode every descriptor of
\* the list has its cell.
C27_MissingComponentPanel ==
  WidgetGridShown(loading, error) =>
    LET cells == WidgetGrid(widgets.arr, widgetComponents, focusedWidgetId,
                            boundaries)
    IN /\ ~isFocusMode(focusedWidgetId) => CellPositions = [j \in 1..Len(widgets.arr) |-> j]
       /\ \A k \in 1..Len(cells) :
            LET id == IdOf(widgets.arr[cells[k].position]) IN
            IF id \notin DOMAIN widgetComponents THEN cells[k].children = FailurePanel
            ELSE IF widgetComponents[id] = Null THEN cells[k].children = FailurePanel
            ELSE /\ cells[k].children # FailurePanel
                 /\ cells[k].children.component = widgetComponents[id]

\* The grid shows a widget with its component next to one that has no entry
\* in the map: the list comes from an import that ran while the loads of an
\* edit were pending, the map from that edit.
C27_Witness ==
  /\ WidgetGridShown(loading, error)
  /\ Len(widgets.arr) = 2
  /\ IdOf(widgets.arr[1]) \in DOMAIN widgetComponents
  /\ widgetComponents[IdOf(widgets.arr[1])] # Null
  /\ IdOf(widgets.arr[2]) \notin DOMAIN widgetComponents
  /\ CellPositions = <<1, 2>>

\* C28: a rendering or lifecycle failure raised by one widget puts only that
\* widget's boundary into the captured-failure state, its cell then showing
\* the widget's name and the failure's message; the cells of all sibling
\* widgets show what they showed, and the host's state (widgets, the
\* component map, loading, error) is unchanged.
C28_FailureContained ==
  \A e \in Calls("componentDidCatch") :
    LET j == ev[e].position
        b == ev[e].before
        cells == WidgetGrid(widgets.arr, widgetComponents, focusedWidgetId,
                            boundaries)
        cellsBefore == WidgetGrid(b.widgets.arr, b.widgetComponents,
                                  b.focusedWidgetId, b.boundaries)
    IN /\ widgets = b.widgets
       /\ widgetComponents = b.widgetComponents
       /\ loading = b.loading
       /\ error = b.error
       /\ WidgetGridShown(loading, error)
       /\ Len(cells) = Len(cellsBefore)
       /\ \A k \in 1..Len(cells) :
            IF cells[k].position = j
            THEN cells[k].shows = [panel |-> "Widget Error",
                                   widgetName |-> NameOf(widgets.arr[j]),
                                   message |-> ev[e].error.message]
            ELSE cells[k] = cellsBefore[k]
       /\ \A k \in DOMAIN boundaries : k # j => boundaries[k] = b.boundaries[k]

\* Widget b of [a, b] has failed while a shows its component.
C28_Witness ==
  \E e \in Calls("componentDidCatch") :
    /\ ev[e].position = 2
    /\ Len(widgets.arr) = 2
    /\ ~isFocusMode(focusedWidgetId)
    /\ ~boundaries[1].hasError
    /\ CellChildren(widgets.arr[1], widgetComponents) # FailurePanel

\* C29: once a widget's boundary has captured a failure, the widget keeps
\* showing the error panel until the widget is removed from the list or the
\* dashboard is reloaded; no other step (a reorder, an unrelated configuration
\* update, a change of focus) clears the captured state.
C29_CapturedFailureStays ==
  [][\A j \in 1..Len(boundaries) :
       boundaries[j].hasError =>
         \/ IdOf(widgets.arr[j]) \notin IdsIn(widgets')
         \/ refreshTrigger' # refreshTrigger
         \/ \E k \in 1..Len(boundaries') :
              /\ widgets'.arr[k] = widgets.arr[j]
              /\ boundaries'[k] = boundaries[j]]_vars

\* seq is the beginning of whole.
IsPrefix(seq, whole) ==
  Len(seq) <= Len(whole) /\ seq = SubSeq(whole, 1, Len(seq))

OvertakenCalls ==
  {e \in Calls("loadWidget.end") : ev[e].cachedBefore}

\* C32: nothing keeps two loadWidget calls for one uncached id from both
\* passing the cache check: the overtaken call fetches and initialises the
\* container all the same, and when both have settled the cache holds one
\* entry for the id, the component of the call that wrote last.
C32_NoSingleFlight ==
  \A e \in OvertakenCalls :
    /\ ev[e].steps[1] = "import"
    /\ ev[e].failing # "import" => InitCalls(ev[e].steps) = 1
    /\ ev[e].cached
    /\ IdOf(ev[e].w) \in DOMAIN loadedWidgets
    /\ ev[e].outcome.ok => /\ ev[e].entry = ev[e].outcome.value
                           /\ loadedWidgets[IdOf(ev[e].w)] = ev[e].outcome.value
    /\ ~ev[e].outcome.ok => ev[e].entry = lastStored[IdOf(ev[e].w)]

\* Two overlapping calls for one id have both fetched and initialised the
\* container of the same url and both returned.
C32_Witness ==
  \E e \in OvertakenCalls :
    /\ ev[e].outcome.ok
    /\ ev[e].initialisedBefore
    /\ IdOf(ev[e].w) \in DOMAIN okResults
    /\ Cardinality(DOMAIN loadedWidgets) = 1

\* The fields normalization fills in.
DefaultedFields == {"id", "module", "props", "cols", "rows"}

\* The raw object o has a value for f that JavaScript takes for true.
HasTruthy(o, f) ==
  /\ Has(o, f)
  /\ CASE f = "id" -> o[f] # <<>>
       [] f = "module" -> o[f] # ""
       [] f = "props" -> ~IsNull(o[f])
       [] OTHER -> o[f] # 0

\* C33: normalization changes id, module, props, cols and rows only where
\* the raw object has none or a falsy one: an id (module, props, cols, rows)
\* that is given is kept as it is, and every other field of the raw object,
\* of the schema or not, is in the normalized descriptor unchanged; the
\* descriptor has no further fields.
C33_NormalizationFrame ==
  \A i \in Calls("loadWidgetConfig") :
    ev[i].outcome.ok /\ ev[i].line = 183 /\ NumWidgets(SourceOf(ev[i])) > 0 =>
      /\ Len(WidgetsOf(ev[i])) = Len(SourceOf(ev[i]).widgets.arr)
      /\ \A j \in 1..Len(WidgetsOf(ev[i])) :
           LET raw == SourceOf(ev[i]).widgets.arr[j]
               n == WidgetsOf(ev[i])[j]
           IN /\ DOMAIN n = DOMAIN raw \cup DefaultedFields
              /\ \A f \in DOMAIN raw \ DefaultedFields : n[f] = raw[f]
              /\ \A f \in DefaultedFields : HasTruthy(raw, f) => n[f] = raw[f]

\* A descriptor with a scope, a field outside the schema, its own id and no
\* module has been normalized.
C33_Witness ==
  \E i \in Calls("loadWidgetConfig") :
    /\ ev[i].outcome.ok /\ ev[i].line = 183 /\ NumWidgets(SourceOf(ev[i])) > 0
    /\ \E j \in 1..Len(WidgetsOf(ev[i])) :
         LET raw == SourceOf(ev[i]).widgets.arr[j]
             n == WidgetsOf(ev[i])[j]
         IN /\ {"id", "scope", "extra"} \subseteq DOMAIN raw
            /\ ~Has(raw, "module")
            /\ n.module = "./Widget"
            /\ n.extra = "x"

\* C34: whenever no operation of the hook is in flight and the dashboard is
\* shown, the component map has an entry, a component or null, for the id of
\* every widget of the list in memory, whatever the order in which the loads
\* of overlapping operations settled.
C34_ComponentsCoverWidgets ==
  NoOperationInFlight /\ mounted /\ error = "null" /\ IsArray(widgets) =>
    \A j \in 1..Len(widgets.arr) :
      ~IsNull(widgets.arr[j]) => IdOf(widgets.arr[j]) \in DOMAIN widgetComponents

\* The loadWidget calls of the last step for a descriptor whose id, given or
\* undefined, was in the cache.
CachedIdCalls ==
  {i \in Calls("loadWidget") :
     ~IsNull(ev[i].w) /\ IdOf(ev[i].w) \in DOMAIN loadedWidgets}

\* C35: the cache is keyed by the id alone: a loadWidget call for an id that
\* is cached returns the cached component whatever the url and module of
\* its descriptor, and descriptors with the same id, or both without one,
\* get the same cached component.
C35_CacheKeyedByIdAlone ==
  /\ \A i \in CachedIdCalls :
       /\ ev[i].hit
       /\ ev[i].ret = loadedWidgets[IdOf(ev[i].w)]
  /\ \A i, j \in CachedIdCalls :
       IdOf(ev[i].w) = IdOf(ev[j].w) => ev[i].ret = ev[j].ret

\* Two descriptors with the id a, one of url u1 and one of url u2, have been
\* served the component that was loaded from u1.
C35_Witness ==
  \E i, j \in CachedIdCalls :
    /\ i # j
    /\ IdOf(ev[i].w) = IdOf(ev[j].w)
    /\ UrlOf(ev[i].w) # UrlOf(ev[j].w)
    /\ ev[i].ret = ev[j].ret
    /\ ev[j].ret # ComponentOf(ev[j].w)

\* C36: a drag that ends over no drop target (event.over is null) leaves the
\* order of the widgets as it is, calls neither onReorder nor
\* saveWidgetConfig, leaves the persisted entry alone and raises no error.
C36_DropOnNothingIsNoOp ==
  \A e \in Calls("handleDragEnd") :
    ev[e].onto = 0 =>
      /\ widgets = ev[e].before.widgets
      /\ storage = ev[e].before.storage
      /\ Calls("saveWidgetConfig") = {}
      /\ ev[e].outcome.ok

\* C38: for a normalized list of widgets and gridColumns of at least 1,
\* importWidgetConfig applied to the text exportWidgetConfig serializes
\* returns the same gridColumns and the same widgets in the same order, and
\* the export changes neither the configuration in memory nor the persisted
\* entry.
C38_ExportImportRoundTrip ==
  \A e \in Calls("exportWidgetConfig") :
    /\ NormalizedList(ev[e].widgets) /\ ev[e].gridColumns >= 1 =>
         importWidgetConfig(ev[e].text)
           = Return([gridColumns |-> ev[e].gridColumns, widgets |-> ev[e].widgets])
    /\ widgets = ev[e].before.widgets
    /\ gridColumns = ev[e].before.gridColumns
    /\ widgetComponents = ev[e].before.widgetComponents
    /\ storage = ev[e].before.storage

\* The list [a, b] has been exported with gridColumns 2.
C38_Witness ==
  \E e \in Calls("exportWidgetConfig") :
    /\ NormalizedList(ev[e].widgets)
    /\ Len(ev[e].widgets.arr) = 2
    /\ ev[e].gridColumns = 2
    /\ importWidgetConfig(ev[e].text).ok

\* C37: when every fetch and every step of a load eventually settles, the
\* loading flag becomes false again after whatever operations were started,
\* and once false it stays false until an operation starts.
C37_LoadingEventuallyFalse ==
  /\ loading ~> ~loading
  /\ [][~loading /\ loading' => started' # started]_vars

\* The loading flag is down with no operation in flight after a reset and
\* an update of the configuration.
C37_Witness ==
  /\ ~loading
  /\ NoOperationInFlight
  /\ started = MaxStarts
  /\ entryFrom.by = "saved"
====
